---- MODULE Spec2Model ----
(***************************************************************************)
(* Model of jsondecoder/structure.py: the JSONDecoder class, which turns a *)
(* parsed JSON document into nested Python classes (run / _convert /       *)
(* _new_class) and prints an indented tree of the document's structure     *)
(* (print_structure / _print_structure).                                   *)
(*                                                                         *)
(* Representation.  A Python string is a sequence of characters, each a    *)
(* TLA+ string.  A Python value is a pair <<kind, val>>: kind is the name  *)
(* of type(value) and val its payload:                                     *)
(*   NoneType <<>>          bool  TRUE/FALSE       int    an integer       *)
(*   float    <<whole, tenths>>                    str    a string         *)
(*   list     the sequence of its items                                    *)
(*   dict     the sequence of its <<key, value>> items, insertion order    *)
(*   tuple    the sequence of its items (a value json.load never builds)   *)
(*   class    [name, attrs]: a class object made by type(name, (), {}),    *)
(*            attrs the sequence of <<name, value>> pairs assigned to it   *)
(***************************************************************************)
EXTENDS Integers, Sequences, FiniteSets, TLC

\* ------------------------------------------------------------------ bounds
\* Largest number of nodes (values, counted at every depth) of a document.
MaxNodes == 3
\* print_structure is called with steps -1..MaxStep and the default.
MaxStep == 2

\* ----------------------------------------------------------------- strings
LowerLetters ==
    <<"a","b","c","d","e","f","g","h","i","j","k","l","m",
      "n","o","p","q","r","s","t","u","v","w","x","y","z">>

UpperLetters ==
    <<"A","B","C","D","E","F","G","H","I","J","K","L","M",
      "N","O","P","Q","R","S","T","U","V","W","X","Y","Z">>

DigitChars == <<"0","1","2","3","4","5","6","7","8","9">>

\* str.upper / str.lower on one character.
UpperChar(c) ==
    IF \E i \in 1..Len(LowerLetters) : LowerLetters[i] = c
    THEN UpperLetters[CHOOSE i \in 1..Len(LowerLetters) : LowerLetters[i] = c]
    ELSE c

LowerChar(c) ==
    IF \E i \in 1..Len(UpperLetters) : UpperLetters[i] = c
    THEN LowerLetters[CHOOSE i \in 1..Len(UpperLetters) : UpperLetters[i] = c]
    ELSE c

\* str.lower()
Lower(s) == IF s = <<>> THEN <<>> ELSE [i \in 1..Len(s) |-> LowerChar(s[i])]

\* c * n for a one-character string c: empty when n <= 0.
Repeat(c, n) == IF n <= 0 THEN <<>> ELSE [i \in 1..n |-> c]

\* format(n, "d") for n >= 0, as used by f"#{index}".
RECURSIVE FormatInt(_)
FormatInt(n) ==
    IF n < 10 THEN <<DigitChars[n + 1]>>
    ELSE FormatInt(n \div 10) \o <<DigitChars[(n % 10) + 1]>>

\* f"{s:{width}s}": left-justified, padded with spaces, never truncated.
FormatStr(s, width) == s \o Repeat(" ", width - Len(s))

\* A capitalize that upper-cases the first character and keeps the others.
capitalize_first_only(s) ==
    IF s = <<>> THEN <<>>
    ELSE <<UpperChar(Head(s))>> \o Tail(s)

\* str.capitalize(): first character upper-cased, all the others lower-cased.
capitalize(s) ==
    IF s = <<>> THEN <<>>
    ELSE <<UpperChar(Head(s))>> \o Lower(Tail(s))

\* ------------------------------------------------------------------ values
PyNone == <<"NoneType", <<>>>>
PyBool(b) == <<"bool", b>>
PyInt(n) == <<"int", n>>
PyFloat(whole, tenths) == <<"float", <<whole, tenths>>>>
PyStr(s) == <<"str", s>>
PyList(items) == <<"list", items>>
PyDict(items) == <<"dict", items>>
PyTuple(items) == <<"tuple", items>>
PyClass(name, attrs) == <<"class", [name |-> name, attrs |-> attrs]>>

\* The two parts of a value.
Kind(value) == value[1]
Val(value) == value[2]

\* type(value).__name__
TypeName(value) == Kind(value)

\* dict.keys() of a sequence of <<key, value>> items, as a set.
KeySet(items) == {items[i][1] : i \in 1..Len(items)}

\* The value stored under key k (getattr / dict lookup); k must be present.
Lookup(items, k) == items[CHOOSE i \in 1..Len(items) : items[i][1] = k][2]

\* -------------------------------------------------- the documents explored
s_root == <<"r","o","o","t">>
s_aB == <<"a","B">>
s_x == <<"x">>
s_y == <<"y">>

\* Keys of the generated mappings: the root label itself, and a key with a
\* capital after its first letter.
Keys == {s_root, s_aB}

\* One value of each primitive kind, and None.
Primitives == {PyBool(TRUE), PyInt(30), PyFloat(1, 5), PyStr(s_x)}
JsonLeaves == Primitives \cup {PyNone}
\* The leaves a caller of the static _convert may also pass.
AnyLeaves == JsonLeaves \cup {PyTuple(<<>>)}

\* Sequences of m distinct keys.
RECURSIVE KeySeqs(_)
KeySeqs(m) ==
    IF m = 0 THEN {<<>>}
    ELSE UNION {{Append(ks, k) : k \in Keys \ {ks[i] : i \in 1..Len(ks)}}
                : ks \in KeySeqs(m - 1)}

Zip(ks, vs) == [i \in 1..Len(vs) |-> <<ks[i], vs[i]>>]

\* ValuesOfSize(leaves, n): the values with exactly n nodes whose leaves are
\* drawn from leaves; SeqsOfSize(leaves, n): the sequences of such values with
\* n nodes in total.
RECURSIVE ValuesOfSize(_, _), SeqsOfSize(_, _)
ValuesOfSize(leaves, n) ==
    IF n = 1 THEN leaves \cup {PyList(<<>>), PyDict(<<>>)}
    ELSE {PyList(vs) : vs \in SeqsOfSize(leaves, n - 1)}
         \cup UNION {{PyDict(Zip(ks, vs)) : ks \in KeySeqs(Len(vs))}
                     : vs \in SeqsOfSize(leaves, n - 1)}

SeqsOfSize(leaves, n) ==
    IF n = 0 THEN {<<>>}
    ELSE UNION {{<<v>> \o rest : v \in ValuesOfSize(leaves, j),
                                 rest \in SeqsOfSize(leaves, n - j)}
                : j \in 1..n}

\* What json.load can return, up to MaxNodes nodes.
Documents == UNION {ValuesOfSize(JsonLeaves, n) : n \in 1..MaxNodes}
\* What a caller can hand to _convert, up to MaxNodes nodes.
Inputs == UNION {ValuesOfSize(AnyLeaves, n) : n \in 1..MaxNodes}

\* {"name": "Alice", "age": 30, "tags": ["x", "y"]}
s_name == <<"n","a","m","e">>
s_age == <<"a","g","e">>
s_tags == <<"t","a","g","s">>
s_Alice == <<"A","l","i","c","e">>
AliceDocument ==
    PyDict(<< <<s_name, PyStr(s_Alice)>>,
            <<s_age, PyInt(30)>>,
            <<s_tags, PyList(<<PyStr(s_x), PyStr(s_y)>>)>> >>)

\* ------------------------------------------------------------- exceptions
\* The outcome of a call: exc is "" and value the returned value, or exc is
\* the name of the exception raised and value the type name it reports.
Return(value) == [exc |-> "", value |-> value]
Raise(exc, what) == [exc |-> exc, value |-> what]
Raised(r) == r.exc # ""

\* ------------------------------------------------------------------- _Type
\* The members of the enumeration: name, value (the name of the Python type
\* it wraps) and value.__name__ spelled out.
_Type_NONETYPE == [name |-> <<"N","O","N","E","T","Y","P","E">>, value |-> "NoneType",
             value_name |-> <<"N","o","n","e","T","y","p","e">>]
_Type_LIST == [name |-> <<"L","I","S","T">>, value |-> "list",
         value_name |-> <<"l","i","s","t">>]
_Type_DICT == [name |-> <<"D","I","C","T">>, value |-> "dict",
         value_name |-> <<"d","i","c","t">>]
_Type_STRING == [name |-> <<"S","T","R","I","N","G">>, value |-> "str",
           value_name |-> <<"s","t","r">>]
_Type_INT == [name |-> <<"I","N","T">>, value |-> "int",
        value_name |-> <<"i","n","t">>]
_Type_FLOAT == [name |-> <<"F","L","O","A","T">>, value |-> "float",
          value_name |-> <<"f","l","o","a","t">>]
_Type_BOOL == [name |-> <<"B","O","O","L">>, value |-> "bool",
         value_name |-> <<"b","o","o","l">>]

_Type_members == {_Type_NONETYPE, _Type_LIST, _Type_DICT, _Type_STRING, _Type_INT, _Type_FLOAT, _Type_BOOL}

\* _Type(cls): the member whose value is cls; Enum raises ValueError when
\* there is none.
_Type_valid(cls) == \E m \in _Type_members : m.value = cls
_Type(cls) == CHOOSE m \in _Type_members : m.value = cls

is_primitive(self) == self \in {_Type_STRING, _Type_INT, _Type_FLOAT, _Type_BOOL}

\* An is_none that recognises nothing.
is_none_never(self) == FALSE

is_none(self) == self = _Type_NONETYPE

\* --------------------------------------------------------------- _KeyValue
_KeyValue(key, value) == [key |-> key, value |-> value]

asiterable(self) == <<self.key, self.value>>

\* ------------------------------------------------------------- conversion
\* A setattr that files the attribute under the capitalized name.
setattr_capitalized(attrs, name, value) ==
    IF \E i \in 1..Len(attrs) : attrs[i][1] = capitalize(name)
    THEN [i \in 1..Len(attrs) |->
            IF attrs[i][1] = capitalize(name) THEN <<capitalize(name), value>>
            ELSE attrs[i]]
    ELSE Append(attrs, <<capitalize(name), value>>)

\* setattr(class_, name, value) on the class's attributes: an attribute
\* already there is overwritten in place, a new one is added.
setattr(attrs, name, value) ==
    IF \E i \in 1..Len(attrs) : attrs[i][1] = name
    THEN [i \in 1..Len(attrs) |->
            IF attrs[i][1] = name THEN <<name, value>> ELSE attrs[i]]
    ELSE Append(attrs, <<name, value>>)

RECURSIVE _convert(_, _), _convert_items(_, _), _new_class_loop(_, _),
          _convert_items_reversed(_, _)

\* A list conversion that collects the converted items last to first.
_convert_items_reversed(key, items) ==
    IF items = <<>> THEN Return(<<>>)
    ELSE LET first == _convert(key, Head(items))
         IN  IF Raised(first) THEN first
             ELSE LET rest == _convert_items_reversed(key, Tail(items))
                  IN  IF Raised(rest) THEN rest
                      ELSE Return(rest.value \o <<first.value.value>>)

\* [JSONDecoder._convert(key, item).value for item in data]
_convert_items(key, items) ==
    IF items = <<>> THEN Return(<<>>)
    ELSE LET first == _convert(key, Head(items))
         IN  IF Raised(first) THEN first
             ELSE LET rest == _convert_items(key, Tail(items))
                  IN  IF Raised(rest) THEN rest
                      ELSE Return(<<first.value.value>> \o rest.value)

\* for pair in data.items(): setattr(class_, *_convert(*pair).asiterable())
_new_class_loop(attrs, items) ==
    IF items = <<>> THEN Return(attrs)
    ELSE LET pair == Head(items)
             kv == _convert(pair[1], pair[2])
         IN  IF Raised(kv) THEN kv
             ELSE _new_class_loop(
                      setattr(attrs, asiterable(kv.value)[1], asiterable(kv.value)[2]),
                      Tail(items))

_new_class(name, items) ==
    LET attrs == _new_class_loop(<<>>, items)
    IN  IF Raised(attrs) THEN attrs
        ELSE Return(PyClass(capitalize(name), attrs.value))

_convert(key, data_) ==
    IF ~_Type_valid(TypeName(data_)) THEN Raise("ValueError", TypeName(data_))
    ELSE LET dtype == _Type(TypeName(data_))
         IN  IF is_primitive(dtype) \/ is_none(dtype)
                 THEN Return(_KeyValue(key, data_))
             ELSE IF dtype = _Type_LIST
                 THEN LET value == _convert_items(key, Val(data_))
                      IN  IF Raised(value) THEN value
                          ELSE Return(_KeyValue(key, PyList(value.value)))
             ELSE IF dtype = _Type_DICT
                 THEN LET value == _new_class(key, Val(data_))
                      IN  IF Raised(value) THEN value
                          ELSE Return(_KeyValue(key, value.value))
             ELSE Raise("TypeError", TypeName(data_))

\* ---------------------------------------------------------------- printer
\* The width of the name field of a leaf line: f'{name:12s}'.
NameWidth == 12
\* print_structure(self, indentstep: int = 4)
DefaultIndentStep == 4

\* The two box-drawing characters of the source, named by their code points
\* (every other character of a string is written as itself).
BoxHorizontal == "U+2500"
BoxCorner == "U+2514"

\* One call of print(text), tagged with the name argument of the
\* _print_structure invocation that made it.
Printed(name, text) == [name |-> name, text |-> text]

\* A leaf line tagged with value.__name__, as the composite lines are.
leaf_line_type_name(name, dtype, indent) ==
    Repeat(" ", indent - 1) \o <<BoxHorizontal>>
        \o FormatStr(name, NameWidth) \o <<"/">> \o dtype.value_name \o <<"/">>

\* f"{' ' * (indent-1)}<U+2500>" then f'{prefix}{name:12s}/{dtype.name.lower()}/'
leaf_line(name, dtype, indent) ==
    Repeat(" ", indent - 1) \o <<BoxHorizontal>>
        \o FormatStr(name, NameWidth) \o <<"/">> \o Lower(dtype.name) \o <<"/">>

\* f"{' '*(indent - self.istep)}<U+2514>{'<U+2500>'* (self.istep-1)}" then
\* f"{prefix}{name} /{dtype.value.__name__}/"
node_line(name, dtype, indent, istep) ==
    Repeat(" ", indent - istep) \o <<BoxCorner>> \o Repeat(BoxHorizontal, istep - 1)
        \o name \o <<" ", "/">> \o dtype.value_name \o <<"/">>

RECURSIVE _print_structure(_, _, _, _), _print_dict_items(_, _, _),
          _print_list_items(_, _, _, _), _print_list_items_from_one(_, _, _, _)

\* A list walk that numbers the items from 1: enumerate(value, 1).
_print_list_items_from_one(items, index, indent, istep) ==
    IF items = <<>> THEN <<>>
    ELSE _print_structure(<<"#">> \o FormatInt(index + 1), Head(items),
                          indent + istep, istep)
             \o _print_list_items_from_one(Tail(items), index + 1, indent, istep)

\* for key, value in value.items(): self._print_structure(key, value, indent + self.istep)
_print_dict_items(items, indent, istep) ==
    IF items = <<>> THEN <<>>
    ELSE _print_structure(Head(items)[1], Head(items)[2], indent + istep, istep)
             \o _print_dict_items(Tail(items), indent, istep)

\* for index, value in enumerate(value): self._print_structure(f"#{index}", value, indent + self.istep)
_print_list_items(items, index, indent, istep) ==
    IF items = <<>> THEN <<>>
    ELSE _print_structure(<<"#">> \o FormatInt(index), Head(items),
                          indent + istep, istep)
             \o _print_list_items(Tail(items), index + 1, indent, istep)

\* The calls of print made by self._print_structure(name, value, indent),
\* in order, self.istep being istep.
_print_structure(name, value, indent, istep) ==
    LET dtype == _Type(TypeName(value))
    IN  IF is_primitive(dtype)
            THEN <<Printed(name, leaf_line(name, dtype, indent))>>
        ELSE <<Printed(name, IF name = s_root THEN <<".">>
                             ELSE node_line(name, dtype, indent, istep))>>
             \o (IF dtype = _Type_DICT
                     THEN _print_dict_items(Val(value), indent, istep)
                     ELSE <<>>)
             \o (IF dtype = _Type_LIST
                     THEN _print_list_items(Val(value), 0, indent, istep)
                     ELSE <<>>)

\* A guard that lets a step of zero through.
invalid_indentstep_negative(indentstep) == indentstep < 0

\* if indentstep < 1: raise ValueError
invalid_indentstep(indentstep) == indentstep < 1

\* ------------------------------------------------------------------- state
\* {"a": 1, "b": {"c": 2}}
s_a == <<"a">>
s_b == <<"b">>
s_c == <<"c">>
ExampleMapping ==
    PyDict(<< <<s_a, PyInt(1)>>,
              <<s_b, PyDict(<< <<s_c, PyInt(2)>> >>)>> >>)

\* {"aB": [null, {"root": 1.5}], "root": {"aB": true, "root": []}}
NestedDocument ==
    PyDict(<< <<s_aB, PyList(<<PyNone,
                              PyDict(<< <<s_root, PyFloat(1, 5)>> >>)>>)>>,
              <<s_root, PyDict(<< <<s_aB, PyBool(TRUE)>>,
                                  <<s_root, PyList(<<>>)>> >>)>> >>)

\* Documents beyond MaxNodes that are explored too.
ExtraDocuments == {AliceDocument, ExampleMapping, NestedDocument}

VARIABLES
    data,     \* self.data, the parsed document
    istep,    \* self.istep: <<>> until print_structure first sets it, then <<n>>
    call,     \* the latest call: [op, key, arg]
    ret,      \* its outcome: Return(value) or Raise(exception, what)
    out,      \* the lines it wrote to standard output, in order
    visited   \* the name argument of the invocation that wrote each line

vars == <<data, istep, call, ret, out, visited>>

Call(op, key, arg) == [op |-> op, key |-> key, arg |-> arg]

Texts(printed) == [i \in DOMAIN printed |-> printed[i].text]
Names(printed) == [i \in DOMAIN printed |-> printed[i].name]

\* JSONDecoder(path): _load has stored the parsed document; no call yet.
Constructed(documents) ==
    /\ data \in documents
    /\ istep = <<>>
    /\ call = Call("__init__", <<>>, PyNone)
    /\ ret = Return(PyNone)
    /\ out = <<>>
    /\ visited = <<>>

\* decoder.run()
run ==
    /\ call' = Call("run", <<>>, PyNone)
    /\ LET kv == _convert(s_root, data)
       IN  ret' = IF Raised(kv) THEN kv ELSE Return(kv.value.value)
    /\ out' = <<>>
    /\ visited' = <<>>
    /\ UNCHANGED <<data, istep>>

\* decoder.print_structure(indentstep)
print_structure(indentstep) ==
    /\ call' = Call("print_structure", <<>>, PyInt(indentstep))
    /\ IF invalid_indentstep(indentstep)
       THEN /\ ret' = Raise("ValueError", "indentstep must be at least 1.")
            /\ out' = <<>>
            /\ visited' = <<>>
            /\ UNCHANGED istep
       ELSE /\ istep' = <<indentstep>>
            /\ LET printed == _print_structure(s_root, data, 0, indentstep)
               IN  /\ out' = Texts(printed)
                   /\ visited' = Names(printed)
            /\ ret' = Return(PyNone)
    /\ UNCHANGED data

\* JSONDecoder._convert(key, input), the static method called directly, once.
convert_call(key, input) ==
    /\ call.op = "__init__"
    /\ call' = Call("_convert", key, input)
    /\ ret' = _convert(key, input)
    /\ out' = <<>>
    /\ visited' = <<>>
    /\ UNCHANGED <<data, istep>>

\* The steps print_structure is called with: negative, zero, the first valid
\* ones and the default.
Steps == ((-1)..MaxStep) \cup {DefaultIndentStep}

\* A decoder on any document, used through its two public methods.
Init == Constructed(Documents \cup ExtraDocuments)
Next ==
    \/ run
    \/ \E indentstep \in Steps : print_structure(indentstep)
Spec == Init /\ [][Next]_vars

\* A decoder on a primitive or null document, and one direct call of the
\* static _convert on any key and any value.
InitConvert == Constructed(JsonLeaves)
NextConvert ==
    \/ run
    \/ \E key \in Keys, input \in Inputs \cup ExtraDocuments :
            convert_call(key, input)
SpecConvert == InitConvert /\ [][NextConvert]_vars

\* ================================================================== claims
\* Vocabulary of the claims, stated on the values alone.
IsLeaf(v) == Kind(v) \in {"NoneType", "bool", "int", "float", "str"}
IsComposite(v) == Kind(v) \in {"list", "dict"}

RECURSIVE Flatten(_)
Flatten(seqs) == IF seqs = <<>> THEN <<>> ELSE Head(seqs) \o Flatten(Tail(seqs))

\* '#<index>', for the indices that occur (index < 10).
IndexLabel(index) == <<"#", DigitChars[index + 1]>>

\* The nodes of the tree rooted at value, parents before children, siblings
\* in order, each with its label and depth.
RECURSIVE PreOrder(_, _, _)
PreOrder(label, value, depth) ==
    <<[label |-> label, value |-> value, depth |-> depth]>>
    \o (IF Kind(value) \in {"list", "dict"} /\ Val(value) # <<>>
        THEN Flatten([i \in 1..Len(Val(value)) |->
                 IF Kind(value) = "dict"
                 THEN PreOrder(Val(value)[i][1], Val(value)[i][2], depth + 1)
                 ELSE PreOrder(IndexLabel(i - 1), Val(value)[i], depth + 1)])
        ELSE <<>>)

\* label occurs in line.
Contains(line, label) ==
    \E j \in 0..(Len(line) - Len(label)) :
        \A i \in 1..Len(label) : line[j + i] = label[i]

EndsWith(line, suffix) ==
    /\ Len(line) >= Len(suffix)
    /\ \A i \in 1..Len(suffix) : line[Len(line) - Len(suffix) + i] = suffix[i]

Spaces(n) == IF n <= 0 THEN <<>> ELSE [i \in 1..n |-> " "]

PrintedOk == call.op = "print_structure" /\ ~Raised(ret)
Converted == call.op = "_convert" /\ ~Raised(ret)

\* ---------------------------------------------------------------------- C1
\* c is the record of mapping m (and likewise at every depth below): its
\* fields are exactly m's keys, none twice, and field f holds the value part
\* of convert(f, m[f]).
RECURSIVE RecordOf(_, _)
RecordOf(v, c) ==
    IF Kind(v) = "dict"
    THEN /\ Kind(c) = "class"
         /\ KeySet(Val(c).attrs) = KeySet(Val(v))
         /\ Len(Val(c).attrs) = Len(Val(v))
         /\ \A f \in KeySet(Val(v)) :
               /\ Lookup(Val(c).attrs, f) = _convert(f, Lookup(Val(v), f)).value.value
               /\ RecordOf(Lookup(Val(v), f), Lookup(Val(c).attrs, f))
    ELSE IF Kind(v) = "list"
    THEN /\ Kind(c) = "list"
         /\ Len(Val(c)) = Len(Val(v))
         /\ \A i \in 1..Len(Val(v)) : RecordOf(Val(v)[i], Val(c)[i])
    ELSE TRUE

\* C1: every mapping converted, at any depth and under any label, becomes a
\* record whose field set is exactly the mapping's key set, each field
\* holding the conversion of its entry's value.
C1_FieldsAreKeys == Converted => RecordOf(call.arg, ret.value.value)

C1_Witness ==
    /\ Converted
    /\ call.arg = ExampleMapping
    /\ Lookup(Val(ret.value.value).attrs, s_a) = PyInt(1)
    /\ Lookup(Val(Lookup(Val(ret.value.value).attrs, s_b)).attrs, s_c) = PyInt(2)

\* ---------------------------------------------------------------------- C2
\* C2: convert(k, v) of a primitive or null v returns v itself, of the same
\* kind, paired with k; run() on such a document returns the document.
C2_PrimitiveIdentity ==
    /\ (call.op = "_convert" /\ IsLeaf(call.arg)) =>
          /\ ~Raised(ret)
          /\ ret.value.key = call.key
          /\ ret.value.value = call.arg
          /\ Kind(ret.value.value) = Kind(call.arg)
    /\ (call.op = "run" /\ IsLeaf(data)) =>
          /\ ~Raised(ret)
          /\ ret.value = data

C2_Witness ==
    /\ call.op = "_convert"
    /\ call.arg = PyNone
    /\ call.key = s_aB
    /\ ~Raised(ret)
    /\ ret.value.key = s_aB
    /\ ret.value.value = PyNone

\* ---------------------------------------------------------------------- C3
\* C3: a converted sequence has the length of the sequence and its i-th
\* element is the value part of convert(k, s[i]); a primitive or null element
\* is the element itself.
C3_SequencePreserved ==
    (Converted /\ Kind(call.arg) = "list") =>
        /\ Kind(ret.value.value) = "list"
        /\ Len(Val(ret.value.value)) = Len(Val(call.arg))
        /\ \A i \in 1..Len(Val(call.arg)) :
              /\ Val(ret.value.value)[i]
                     = _convert(call.key, Val(call.arg)[i]).value.value
              /\ IsLeaf(Val(call.arg)[i]) =>
                     Val(ret.value.value)[i] = Val(call.arg)[i]

C3_Witness ==
    /\ Converted
    /\ call.arg = PyList(<<PyInt(30), PyNone>>)
    /\ ret.value.value = PyList(<<PyInt(30), PyNone>>)

\* ---------------------------------------------------------------------- C4
\* C4: print_structure with a step below 1 raises ValueError, prints nothing
\* and changes neither the document nor the stored step; with a step of at
\* least 1 it completes.
C4_InvalidStepRejected ==
    /\ [](call.op = "print_structure" =>
            IF Val(call.arg) < 1
            THEN ret.exc = "ValueError" /\ out = <<>>
            ELSE ~Raised(ret) /\ istep = <<Val(call.arg)>>)
    /\ [][(call'.op = "print_structure" /\ Val(call'.arg) < 1) =>
            (data' = data /\ istep' = istep)]_vars

C4_Witness ==
    /\ call.op = "print_structure"
    /\ Val(call.arg) < 1
    /\ ret.exc = "ValueError"
    /\ istep = <<DefaultIndentStep>>

\* ---------------------------------------------------------------------- C5
AlicePrinted ==
    /\ PrintedOk
    /\ data = AliceDocument
    /\ call.arg = PyInt(4)

\* C5, as claimed: the line of name is in the corner style and typed str, and
\* so are the lines of #0 and #1 typed str.
C5_AsClaimed ==
    AlicePrinted =>
        /\ Len(out) = 6
        /\ out[1] = <<".">>
        /\ out[2] = <<BoxCorner, BoxHorizontal, BoxHorizontal, BoxHorizontal,
                      "n","a","m","e"," ","/","s","t","r","/">>
        /\ EndsWith(out[3], <<"/","i","n","t","/">>)
        /\ EndsWith(out[4], <<"t","a","g","s"," ","/","l","i","s","t","/">>)
        /\ Contains(out[5], <<"#","0">>) /\ EndsWith(out[5], <<"/","s","t","r","/">>)
        /\ Contains(out[6], <<"#","1">>) /\ EndsWith(out[6], <<"/","s","t","r","/">>)

\* C5, amended: the leaf lines are in the leaf form (spaces, one horizontal
\* bar, the label padded to 12 columns, the tag) and a string is tagged
\* string; the lines of #0 and #1 start 4 columns further right than those
\* of name and age.
C5_AliceOutput ==
    AlicePrinted =>
        out = << <<".">>,
                 <<" "," "," ",BoxHorizontal,
                   "n","a","m","e"," "," "," "," "," "," "," "," ",
                   "/","s","t","r","i","n","g","/">>,
                 <<" "," "," ",BoxHorizontal,
                   "a","g","e"," "," "," "," "," "," "," "," "," ",
                   "/","i","n","t","/">>,
                 <<BoxCorner,BoxHorizontal,BoxHorizontal,BoxHorizontal,
                   "t","a","g","s"," ","/","l","i","s","t","/">>,
                 <<" "," "," "," "," "," "," ",BoxHorizontal,
                   "#","0"," "," "," "," "," "," "," "," "," "," ",
                   "/","s","t","r","i","n","g","/">>,
                 <<" "," "," "," "," "," "," ",BoxHorizontal,
                   "#","1"," "," "," "," "," "," "," "," "," "," ",
                   "/","s","t","r","i","n","g","/">> >>

C5_Witness == AlicePrinted /\ Len(out) = 6

\* ---------------------------------------------------------------------- C6
\* C6: print_structure writes one line per node of the document, in pre-order:
\* the i-th line is written for the i-th node, under the node's label (the
\* key, or '#<index>' from 0), and shows that label unless it is the '.' line.
C6_OneLinePerNodePreOrder ==
    PrintedOk =>
        LET nodes == PreOrder(s_root, data, 0)
        IN  /\ Len(out) = Len(nodes)
            /\ Len(visited) = Len(nodes)
            /\ \A i \in 1..Len(nodes) :
                  /\ visited[i] = nodes[i].label
                  /\ out[i] = <<".">> \/ Contains(out[i], nodes[i].label)

C6_Witness ==
    /\ PrintedOk
    /\ data = NestedDocument
    /\ Len(out) = 8
    /\ visited = <<s_root, s_aB, <<"#","0">>, <<"#","1">>, s_root,
                   s_root, s_aB, s_root>>

\* ---------------------------------------------------------------------- C7
\* The lowercase type tag of a primitive or null node.
LeafTag(v) ==
    CASE Kind(v) = "NoneType" -> <<"n","o","n","e","t","y","p","e">>
      [] Kind(v) = "bool" -> <<"b","o","o","l">>
      [] Kind(v) = "int" -> <<"i","n","t">>
      [] Kind(v) = "float" -> <<"f","l","o","a","t">>
      [] Kind(v) = "str" -> <<"s","t","r","i","n","g">>

\* The leaf form: (indent - 1) spaces, the bar, the label in 12 columns, /tag/.
LeafForm(label, indent, tag) ==
    Spaces(indent - 1) \o <<BoxHorizontal>> \o label
        \o Spaces(NameWidth - Len(label)) \o <<"/">> \o tag \o <<"/">>

\* C7: every primitive or null node, at any depth, is printed as one line of
\* the leaf form; a null node is never printed as a corner line or as '.'.
C7_LeafForm ==
    PrintedOk =>
        LET nodes == PreOrder(s_root, data, 0)
        IN  /\ Len(out) = Len(nodes)
            /\ \A i \in 1..Len(nodes) :
                  IsLeaf(nodes[i].value) =>
                      out[i] = LeafForm(nodes[i].label,
                                        nodes[i].depth * Val(call.arg),
                                        LeafTag(nodes[i].value))

\* ---------------------------------------------------------------------- C8
\* v, or a value nested in it, is of a kind outside the JSON kinds.
RECURSIVE HasUnsupported(_)
HasUnsupported(v) ==
    IF Kind(v) = "list" THEN \E i \in 1..Len(Val(v)) : HasUnsupported(Val(v)[i])
    ELSE IF Kind(v) = "dict" THEN \E i \in 1..Len(Val(v)) : HasUnsupported(Val(v)[i][2])
    ELSE ~IsLeaf(v)

\* C8: converting a value of an unsupported kind, at the top or nested, fails
\* with a TypeError naming the kind, and with no other error.
C8_UnsupportedIsTypeError ==
    (call.op = "_convert" /\ HasUnsupported(call.arg)) =>
        /\ ret.exc = "TypeError"
        /\ ret.value = "tuple"

\* ---------------------------------------------------------------------- C9
\* The corner form: (indent - step) spaces, the corner, (step - 1) bars, the
\* label, a space, /type name/.
CornerForm(label, indent, step, kind) ==
    Spaces(indent - step) \o <<BoxCorner>>
        \o (IF step <= 1 THEN <<>> ELSE [i \in 1..(step - 1) |-> BoxHorizontal])
        \o label \o <<" ", "/">>
        \o (IF kind = "list" THEN <<"l","i","s","t">> ELSE <<"d","i","c","t">>)
        \o <<"/">>

\* C9: for a composite document the first line is '.', and every other
\* composite node is printed as a corner line, whatever its key, never as
\* '.' (the lines of null nodes are C7's subject and are left out here).
C9_OneRootLine ==
    (PrintedOk /\ IsComposite(data)) =>
        LET nodes == PreOrder(s_root, data, 0)
        IN  /\ Len(out) = Len(nodes)
            /\ out[1] = <<".">>
            /\ \A i \in 2..Len(nodes) :
                  IsComposite(nodes[i].value) =>
                      /\ out[i] # <<".">>
                      /\ out[i] = CornerForm(nodes[i].label,
                                            nodes[i].depth * Val(call.arg),
                                            Val(call.arg), Kind(nodes[i].value))

\* --------------------------------------------------------------------- C10
\* k with its first letter capitalized and nothing else changed.
FirstLetterUp(k) ==
    IF k = <<>> THEN <<>>
    ELSE [i \in 1..Len(k) |-> IF i = 1 THEN UpperChar(k[1]) ELSE k[i]]

\* k with its first letter capitalized and every other letter lower-cased.
FirstUpRestLower(k) ==
    IF k = <<>> THEN <<>>
    ELSE [i \in 1..Len(k) |-> IF i = 1 THEN UpperChar(k[1]) ELSE LowerChar(k[i])]

\* Every record in c, the conversion of v under label k, is named after its
\* label (FirstUpRestLower of it when lowered, FirstLetterUp of it
\* otherwise): a mapping's entries are labelled by their keys, a sequence's
\* elements by the label of the sequence.
RECURSIVE NamedBy(_, _, _, _)
NamedBy(lowered, k, v, c) ==
    IF Kind(v) = "dict"
    THEN /\ Val(c).name = (IF lowered THEN FirstUpRestLower(k) ELSE FirstLetterUp(k))
         /\ \A f \in KeySet(Val(v)) :
               NamedBy(lowered, f, Lookup(Val(v), f), Lookup(Val(c).attrs, f))
    ELSE IF Kind(v) = "list"
    THEN \A i \in 1..Len(Val(v)) : NamedBy(lowered, k, Val(v)[i], Val(c)[i])
    ELSE TRUE

\* C10, as claimed: the characters after the first are left as they are.
C10_AsClaimed ==
    Converted => NamedBy(FALSE, call.key, call.arg, ret.value.value)

\* C10, amended: the record's name is the label with its first letter
\* capitalized and all its other letters lower-cased.
C10_RecordName ==
    Converted => NamedBy(TRUE, call.key, call.arg, ret.value.value)

C10_Witness ==
    /\ Converted
    /\ call.key = s_aB
    /\ call.arg = PyList(<<PyDict(<<>>)>>)
    /\ Val(Val(ret.value.value)[1]).name = <<"A","b">>

====
